---- MODULE Spec2Model ----
(***************************************************************************)
(* A model of the EVM interpreter of src/typescript/evm.ts (the final      *)
(* version of the file, lines 423-1222).                                   *)
(*                                                                         *)
(* The interpreter is one recursive function, evm(code, tx, block, state,  *)
(* contextWritable).  Its recursion (CALL, DELEGATECALL, STATICCALL,       *)
(* CREATE, CREATE2) is the sequence `frames': the last element is the      *)
(* activation that is running, the ones below it are suspended inside      *)
(* their call handler.  One step of the model is one iteration of the      *)
(* dispatch loop of the running activation; a call handler is the step     *)
(* that pushes the callee's activation plus the step that consumes the     *)
(* callee's result, and nothing else runs between the two.                 *)
(*                                                                         *)
(* Words are scaled from 256 bits to 8 * WordBytes bits, and the memory    *)
(* buffer from 1 MiB to MemSize bytes.  Opcode bytes keep their values.    *)
(* JavaScript's `undefined' is UNDEF; an uncaught TypeError / RangeError   *)
(* ends the whole call chain (there is no try/catch in the source).        *)
(***************************************************************************)
EXTENDS Integers, Sequences, FiniteSets, TLC

VARIABLES
  frames,   \* the chain of activations of evm(), innermost last
  storage,  \* the module-level `storage' object (Storage.data)
  results   \* what the callers of the entry point got back, oldest first

vars == <<frames, storage, results>>

-----------------------------------------------------------------------------
(* Scaling and bounds *)

\* bytes per word (32 in the source)
WordBytes == 2
\* size of the memory buffer (1024 * 1024 in the source)
MemSize == 8
\* top-level invocations of evm() in a row (the fixture loop of evm.test.ts)
MaxRuns == 2

UINT256_CEIL == 2 ^ (8 * WordBytes)

UNDEF == -1

-----------------------------------------------------------------------------
(* Opcodes *)

STOP == 0
ADD == 1
MUL == 2
SUB == 3
DIV == 4
MOD == 6
ADDMOD == 8
MULMOD == 9
LT == 16
GT == 17
EQ == 20
ISZERO == 21
SDIV == 5
SMOD == 7
SIGNEXTEND == 11
SLT == 18
SGT == 19
AND == 22
OR == 23
XOR == 24
NOT == 25
SHL == 27
SHR == 28
SAR == 29
ADDRESS == 48
ORIGIN == 50
CALLER == 51
CALLVALUE == 52
CALLDATALOAD == 53
CALLDATASIZE == 54
RETURNDATASIZE == 61
POP == 80
MLOAD == 81
MSTORE == 82
MSTORE8 == 83
SLOAD == 84
SSTORE == 85
JUMP == 86
JUMPI == 87
PC == 88
MSIZE == 89
GAS == 90
JUMPDEST == 91
PUSH1 == 96
PUSH2 == 97
PUSH32 == 127
DUP1 == 128
DUP16 == 143
SWAP1 == 144
SWAP16 == 159
LOG0 == 160
LOG4 == 164
CREATE == 240
CALL == 241
CALLCODE == 242
RETURN == 243
DELEGATECALL == 244
CREATE2 == 245
STATICCALL == 250
REVERT == 253
INVALID == 254
SELFDESTRUCT == 255

isPush(opcode) == opcode >= PUSH1 /\ opcode <= PUSH32
isDup(opcode) == opcode >= DUP1 /\ opcode <= DUP16
isSwap(opcode) == opcode >= SWAP1 /\ opcode <= SWAP16
isLog(opcode) == opcode >= LOG0 /\ opcode <= LOG4
isCreate(opcode) == opcode = CREATE \/ opcode = CREATE2

-----------------------------------------------------------------------------
(* Conversions.  A hex string is the sequence of its digits (0..15). *)

RECURSIVE toString16(_)
\* BigInt.prototype.toString(16): no leading zeros, "0" for zero
toString16(n) ==
  IF n < 16 THEN <<n>> ELSE toString16(n \div 16) \o <<n % 16>>

\* /../g pairs of digits; a trailing odd digit is dropped
hexStringToUint8Array(hexString) ==
  [i \in 1..(Len(hexString) \div 2) |->
      hexString[2 * i - 1] * 16 + hexString[2 * i]]

\* the key of an account in the world state; the constant "0x" is left out
\* and the string "undefined" is <<UNDEF>>
numberToHexFormatted(num) ==
  IF num = UNDEF THEN <<UNDEF>>
  ELSE (IF num < 16 THEN <<0>> ELSE <<>>) \o toString16(num)

toBigInt(val) == IF val THEN 1 ELSE 0

toUnsigned(val) ==
  IF val >= UINT256_CEIL THEN val % UINT256_CEIL
  ELSE IF val < 0 THEN UINT256_CEIL - ((-val) % UINT256_CEIL)
  ELSE val

addFn(op1, op2) == op1 + op2
subFn(op1, op2) == op1 - op2
mulFn(op1, op2) == op1 * op2
\* BigInt division truncates towards zero and % takes the dividend's sign
abs(n) == IF n < 0 THEN -n ELSE n
truncDiv(a, b) ==
  IF (a < 0) = (b < 0) THEN abs(a) \div abs(b) ELSE -(abs(a) \div abs(b))
truncMod(a, b) == a - b * truncDiv(a, b)

toSigned(val) ==
  IF val < UINT256_CEIL \div 2 THEN val ELSE (UINT256_CEIL - val) * (-1)

divFn(op1, op2) == IF op2 = 0 THEN 0 ELSE truncDiv(op1, op2)
modFn(val, mod) == IF mod = 0 THEN 0 ELSE truncMod(val, mod)
sdivFn(op1, op2) == divFn(toSigned(op1), toSigned(op2))
smodFn(val, mod) == modFn(toSigned(val), toSigned(mod))
ltFn(op1, op2) == toBigInt(op1 < op2)
gtFn(op1, op2) == toBigInt(op1 > op2)
eqFn(op1, op2) == toBigInt(op1 = op2)
sltFn(op1, op2) == ltFn(toSigned(op1), toSigned(op2))
sgtFn(op1, op2) == gtFn(toSigned(op1), toSigned(op2))

RECURSIVE andFn(_, _), orFn(_, _), xorFn(_, _)
\* &, | and ^ of two non-negative BigInts, bit by bit
andFn(op1, op2) ==
  IF op1 = 0 \/ op2 = 0 THEN 0
  ELSE ((op1 % 2) * (op2 % 2)) + 2 * andFn(op1 \div 2, op2 \div 2)
orFn(op1, op2) ==
  IF op1 = 0 THEN op2 ELSE IF op2 = 0 THEN op1
  ELSE (IF op1 % 2 = 1 \/ op2 % 2 = 1 THEN 1 ELSE 0) + 2 * orFn(op1 \div 2, op2 \div 2)
xorFn(op1, op2) ==
  IF op1 = 0 THEN op2 ELSE IF op2 = 0 THEN op1
  ELSE ((op1 + op2) % 2) + 2 * xorFn(op1 \div 2, op2 \div 2)

\* val >> bitNum, rounding down; a value of at most 8 * WordBytes + 1 bits
\* shifted further is 0, or -1 when negative
shrFn(bitNum, val) ==
  IF bitNum > 8 * WordBytes THEN (IF val < 0 THEN -1 ELSE 0)
  ELSE val \div (2 ^ bitNum)

\* shlFn with a mask one bit too narrow
shlFnNarrowMask(bitNum, val) ==
  LET mask == shrFn(bitNum + 1, UINT256_CEIL - 1)
      masked == andFn(val, mask)
  IN  IF masked = 0 THEN 0 ELSE masked * (2 ^ bitNum)

\* (val & mask) << bitNum with mask = (UINT256_CEIL - 1) >> bitNum
shlFn(bitNum, val) ==
  LET mask == shrFn(bitNum, UINT256_CEIL - 1)
      masked == andFn(val, mask)
  IN  IF masked = 0 THEN 0 ELSE masked * (2 ^ bitNum)

sarFn(bitNum, val) == shrFn(bitNum, toSigned(val))

\* signBit = val >> ((byteNum + 1) * 8 - 1): `-' binds tighter than `>>'
sextFn(byteNum, val) ==
  LET signBit == shrFn((byteNum + 1) * 8 - 1, val)
  IN  IF signBit = 1 THEN orFn(UINT256_CEIL - 1, val) ELSE val

RECURSIVE loadBytes(_, _, _)
\* the big-endian value of `length' bytes of `data' from 0-based `offset'
loadBytes(data, offset, length) ==
  IF length = 0 THEN 0
  ELSE loadBytes(data, offset, length - 1) * 256 + data[offset + length]

\* loadFromUint8ArrayFn: bytes past the end of `data' read as 0
loadFromUint8ArrayFn(data, byteOffset, size) ==
  LET offset == IF byteOffset = UNDEF THEN 0 ELSE byteOffset
      padded == [i \in 1..(offset + size) |->
                    IF i <= Len(data) THEN data[i] ELSE 0]
  IN  loadBytes(padded, offset, size)

-----------------------------------------------------------------------------
(* Memory: data is the Uint8Array (1-based here), msize the counter. *)

NewMemory == [data |-> [i \in 1..MemSize |-> 0], msize |-> 0]

\* updateMsize assigning without the comparison with the current msize
updateMsizeAssigning(mem, offset, readSize) ==
  LET offsetMsize == ((offset + readSize + WordBytes - 1) \div WordBytes) * WordBytes
  IN  [mem EXCEPT !.msize = offsetMsize]

updateMsize(mem, offset, readSize) ==
  LET offsetMsize == ((offset + readSize + WordBytes - 1) \div WordBytes) * WordBytes
  IN  IF offsetMsize > mem.msize THEN [mem EXCEPT !.msize = offsetMsize] ELSE mem

\* Memory.store; the result carries threw = TRUE for the TypeError of
\* `undefined + 0n' / `undefined >> 0n'.  Writes past the buffer are dropped,
\* as a typed array drops them.
memStore(mem, offset, value, sizeArg) ==
  LET size == IF sizeArg = UNDEF THEN WordBytes ELSE sizeArg
  IN  IF size > 0 /\ (offset = UNDEF \/ value = UNDEF)
      THEN [mem |-> mem, threw |-> TRUE]
      ELSE LET data == [j \in 1..MemSize |->
                          IF j - 1 >= offset /\ j - 1 < offset + size
                          THEN (value \div (256 ^ (size - (j - 1 - offset) - 1))) % 256
                          ELSE mem.data[j]]
           IN  [mem |-> updateMsize([mem EXCEPT !.data = data], offset, 0),
                threw |-> FALSE]

\* Memory.load; threw = TRUE for `undefined + 0n' and for BigInt(undefined)
\* on a read past the buffer.  A length of undefined takes the default.
memLoad(mem, offset, lengthArg) ==
  LET length == IF lengthArg = UNDEF THEN WordBytes ELSE lengthArg
  IN  IF length > 0 /\ (offset = UNDEF \/ offset + length > MemSize)
      THEN [mem |-> mem, value |-> 0, threw |-> TRUE]
      ELSE [mem |-> updateMsize(mem, offset, length),
            value |-> loadBytes(mem.data, offset, length),
            threw |-> FALSE]

-----------------------------------------------------------------------------
(* Storage *)

NewStorage == <<>>

storageStore(data, key, value) ==
  [k \in DOMAIN data \cup {key} |-> IF k = key THEN value ELSE data[k]]

\* this.data[key] || 0n
storageLoad(data, key) ==
  IF key \in DOMAIN data /\ data[key] # UNDEF THEN data[key] ELSE 0

-----------------------------------------------------------------------------
(* Results and activations *)

\* no result yet: the activation is still in its dispatch loop
NoResult ==
  [kind |-> "running", success |-> FALSE, stack |-> <<>>,
   hasLogs |-> FALSE, logs |-> <<>>, return |-> UNDEF]

\* error(): {success: false, stack: [], return: returnValue}, no logs field
error(returnValue) ==
  [kind |-> "returned", success |-> FALSE, stack |-> <<>>,
   hasLogs |-> FALSE, logs |-> <<>>, return |-> returnValue]

\* what the caller of the entry point sees when an exception escapes
Threw ==
  [kind |-> "threw", success |-> FALSE, stack |-> <<>>,
   hasLogs |-> FALSE, logs |-> <<>>, return |-> UNDEF]

\* the locals of a handler suspended in a recursive call; before is a history
\* field, the storage as it was when the call was made
NoPending ==
  [opcode |-> UNDEF, retOffset |-> UNDEF, retSize |-> UNDEF, value |-> UNDEF,
   before |-> <<>>]

RECURSIVE scanDestinations(_, _)
\* the pre-scan loop: every PUSH skips one byte
scanDestinations(code, i) ==
  IF i >= Len(code) THEN {}
  ELSE (IF code[i + 1] = JUMPDEST THEN {i} ELSE {})
       \cup scanDestinations(code, i + (IF isPush(code[i + 1]) THEN 2 ELSE 1))

validJumpDestinations(code) == scanDestinations(code, 0)

\* the locals of evm() on entry
NewFrame(code, tx, state, contextWritable) ==
  [code |-> code, tx |-> tx, state |-> state, writable |-> contextWritable,
   pc |-> 0, stack |-> <<>>, logs |-> <<>>, mem |-> NewMemory,
   returnValue |-> UNDEF, lastSubReturn |-> UNDEF,
   dests |-> validJumpDestinations(code),
   res |-> NoResult, pend |-> NoPending]

Top == frames[Len(frames)]

Running == frames # <<>> /\ Top.res.kind = "running"

\* the loop condition holds and an opcode is fetched
Fetch == Running /\ Top.pc < Len(Top.code)

opcode == Top.code[Top.pc + 1]

\* stack[i - 1] of the source, undefined past the end
At(stack, i) == IF i <= Len(stack) THEN stack[i] ELSE UNDEF

\* the stack after n shift()s
Shift(stack, n) == SubSeq(stack, n + 1, Len(stack))

\* the handler breaks out of the switch: pc++ and the next iteration
Continue(f) ==
  /\ frames' = [frames EXCEPT ![Len(frames)] = [f EXCEPT !.pc = @ + 1]]
  /\ UNCHANGED <<storage, results>>

\* the handler returns r from evm()
Return(r) ==
  /\ frames' = [frames EXCEPT ![Len(frames)].res = r]
  /\ UNCHANGED <<storage, results>>

\* an exception leaves every activation of the chain
Throw ==
  /\ frames' = <<>>
  /\ results' = Append(results, [code |-> frames[1].code,
                                 writable |-> frames[1].writable, res |-> Threw])
  /\ UNCHANGED storage

-----------------------------------------------------------------------------
(* exec2 *)

operations(op) ==
  CASE op = ADD -> <<"addFn">>
    [] op = MUL -> <<"mulFn">>
    [] op = SUB -> <<"subFn">>
    [] op = DIV -> <<"divFn">>
    [] op = MOD -> <<"modFn">>
    [] op = ADDMOD -> <<"addFn", "modFn">>
    [] op = MULMOD -> <<"mulFn", "modFn">>
    [] op = LT -> <<"ltFn">>
    [] op = GT -> <<"gtFn">>
    [] op = EQ -> <<"eqFn">>
    [] op = SIGNEXTEND -> <<"sextFn">>
    [] op = SDIV -> <<"sdivFn">>
    [] op = SMOD -> <<"smodFn">>
    [] op = SLT -> <<"sltFn">>
    [] op = SGT -> <<"sgtFn">>
    [] op = AND -> <<"andFn">>
    [] op = OR -> <<"orFn">>
    [] op = XOR -> <<"xorFn">>
    [] op = SHL -> <<"shlFn">>
    [] op = SHR -> <<"shrFn">>
    [] op = SAR -> <<"sarFn">>

isExec2(op) ==
  op \in {ADD, MUL, SUB, DIV, MOD, ADDMOD, MULMOD, LT, GT, EQ, SIGNEXTEND, SDIV,
          SMOD, SLT, SGT, AND, OR, XOR, SHL, SHR, SAR}

opFn(fn, op1, op2) ==
  CASE fn = "addFn" -> addFn(op1, op2)
    [] fn = "mulFn" -> mulFn(op1, op2)
    [] fn = "subFn" -> subFn(op1, op2)
    [] fn = "divFn" -> divFn(op1, op2)
    [] fn = "modFn" -> modFn(op1, op2)
    [] fn = "ltFn" -> ltFn(op1, op2)
    [] fn = "gtFn" -> gtFn(op1, op2)
    [] fn = "eqFn" -> eqFn(op1, op2)
    [] fn = "sextFn" -> sextFn(op1, op2)
    [] fn = "sdivFn" -> sdivFn(op1, op2)
    [] fn = "smodFn" -> smodFn(op1, op2)
    [] fn = "sltFn" -> sltFn(op1, op2)
    [] fn = "sgtFn" -> sgtFn(op1, op2)
    [] fn = "andFn" -> andFn(op1, op2)
    [] fn = "orFn" -> orFn(op1, op2)
    [] fn = "xorFn" -> xorFn(op1, op2)
    [] fn = "shlFn" -> shlFn(op1, op2)
    [] fn = "shrFn" -> shrFn(op1, op2)
    [] fn = "sarFn" -> sarFn(op1, op2)

RECURSIVE exec2LoopKeepingStack(_, _, _)
\* the loop of exec2 handing the current stack on to the failure result
exec2LoopKeepingStack(stack, ops, i) ==
  IF i > Len(ops) THEN [success |-> TRUE, stack |-> stack]
  ELSE LET op1 == At(stack, 1)
           op2 == At(stack, 2)
       IN  IF op1 # UNDEF /\ op2 # UNDEF
           THEN LET raw == opFn(ops[i], op1, op2)
                    result == IF i = Len(ops) THEN toUnsigned(raw) ELSE raw
                IN  exec2LoopKeepingStack(<<result>> \o Shift(stack, 2), ops, i + 1)
           ELSE [success |-> FALSE, stack |-> stack]

RECURSIVE exec2LoopReducing(_, _, _)
\* the loop of exec2 converting every intermediate result to unsigned
exec2LoopReducing(stack, ops, i) ==
  IF i > Len(ops) THEN [success |-> TRUE, stack |-> stack]
  ELSE LET op1 == At(stack, 1)
           op2 == At(stack, 2)
       IN  IF op1 # UNDEF /\ op2 # UNDEF
           THEN LET result == toUnsigned(opFn(ops[i], op1, op2))
                IN  exec2LoopReducing(<<result>> \o Shift(stack, 2), ops, i + 1)
           ELSE [success |-> FALSE, stack |-> <<>>]

RECURSIVE exec2Loop(_, _, _)
exec2Loop(stack, ops, i) ==
  IF i > Len(ops) THEN [success |-> TRUE, stack |-> stack]
  ELSE LET op1 == At(stack, 1)
           op2 == At(stack, 2)
       IN  IF op1 # UNDEF /\ op2 # UNDEF
           THEN LET raw == opFn(ops[i], op1, op2)
                    result == IF i = Len(ops) THEN toUnsigned(raw) ELSE raw
                IN  exec2Loop(<<result>> \o Shift(stack, 2), ops, i + 1)
           ELSE [success |-> FALSE, stack |-> <<>>]

\* exec2: {success: true, stack} or error(opcode, stack); neither has logs
\* or a return value
exec2(stack, ops) ==
  LET r == exec2Loop(stack, ops, 1)
  IN  [kind |-> "returned", success |-> r.success, stack |-> r.stack,
       hasLogs |-> FALSE, logs |-> <<>>, return |-> UNDEF]

-----------------------------------------------------------------------------
(* The dispatch loop, one action per handler.  Each is the handler followed *)
(* by the pc++ at the end of the loop body, unless the handler returns.     *)

\* PUSHX: the immediate is read byte by byte; a byte past the end of the
\* code is undefined and BigInt(undefined) throws
Push ==
  /\ Fetch /\ isPush(opcode)
  /\ LET f == Top
         n == opcode - PUSH1 + 1
     IN  IF f.pc + n >= Len(f.code)
         THEN Throw
         ELSE Continue([f EXCEPT !.stack = <<loadBytes(f.code, f.pc + 1, n)>> \o @,
                                 !.pc = f.pc + n])

\* DUPX: on a short stack error() is called and its result dropped
Dup ==
  /\ Fetch /\ isDup(opcode)
  /\ LET f == Top
         index == opcode - DUP1
     IN  IF Len(f.stack) > index
         THEN Continue([f EXCEPT !.stack = <<f.stack[index + 1]>> \o @])
         ELSE Continue(f)

\* SWAPX: as DUPX
Swap ==
  /\ Fetch /\ isSwap(opcode)
  /\ LET f == Top
         index == opcode - SWAP1 + 1
     IN  IF Len(f.stack) > index
         THEN Continue([f EXCEPT !.stack = [@ EXCEPT ![index + 1] = f.stack[1],
                                                     ![1] = f.stack[index + 1]]])
         ELSE Continue(f)

\* the fixed address of a created contract
CreateAddress == 255

\* CREATEX up to the recursive call: the initcode runs on the creator's tx,
\* on a state object of its own, writable
Create ==
  /\ Fetch /\ isCreate(opcode)
  /\ LET f == Top
         value == At(f.stack, 1)
         offset == At(f.stack, 2)
         size == At(f.stack, 3)
         ld == memLoad(f.mem, offset, size)
         code == toString16(ld.value)
         codeSub == hexStringToUint8Array(code)
         stateSub == [k \in {numberToHexFormatted(CreateAddress)} |->
                        [balance |-> value, nonce |-> 0, code |-> code, storage |-> <<>>]]
     IN  IF ~f.writable THEN Return(error(UNDEF))
         ELSE IF ld.threw \/ value = UNDEF THEN Throw
         ELSE /\ frames' = [frames EXCEPT ![Len(frames)] =
                               [f EXCEPT !.stack = Shift(@, 3), !.mem = ld.mem,
                                         !.pend = [opcode |-> opcode, retOffset |-> UNDEF,
                                                   retSize |-> UNDEF, value |-> value,
                                                   before |-> storage]]]
                            \o <<NewFrame(codeSub, f.tx, stateSub, TRUE)>>
              /\ UNCHANGED <<storage, results>>

\* CREATEX after the recursive call returned
CreateReturn ==
  /\ Len(frames) >= 2
  /\ Top.res.kind = "returned"
  /\ isCreate(frames[Len(frames) - 1].pend.opcode)
  /\ LET result == Top.res
         f == frames[Len(frames) - 1]
         key == numberToHexFormatted(CreateAddress)
         account == [balance |-> f.pend.value, nonce |-> 0,
                     code |-> IF result.return # UNDEF /\ result.return # 0
                              THEN toString16(result.return) ELSE <<>>,
                     storage |-> <<>>]
         g == IF result.success
              THEN [f EXCEPT !.state = [k \in DOMAIN f.state \cup {key} |->
                                          IF k = key THEN account ELSE f.state[k]],
                             !.stack = <<CreateAddress>> \o @]
              ELSE [f EXCEPT !.stack = <<0>> \o @]
     IN  /\ frames' = Append(SubSeq(frames, 1, Len(frames) - 2),
                             [g EXCEPT !.pend = NoPending, !.pc = @ + 1])
         /\ UNCHANGED <<storage, results>>

RECURSIVE shiftTopics(_, _)
\* topicsAmount times stack.shift()!
shiftTopics(stack, n) ==
  IF n = 0 THEN <<>> ELSE <<At(stack, 1)>> \o shiftTopics(Shift(stack, 1), n - 1)

\* LOGX
Log ==
  /\ Fetch /\ isLog(opcode)
  /\ LET f == Top
         offset == At(f.stack, 1)
         length == At(f.stack, 2)
         ld == memLoad(f.mem, offset, length)
         topicsAmount == opcode - LOG0
         logEntry == [address |-> f.tx.address, data |-> ld.value,
                      topics |-> shiftTopics(Shift(f.stack, 2), topicsAmount)]
     IN  IF ~f.writable THEN Return(error(UNDEF))
         ELSE IF ld.threw THEN Throw
         ELSE Continue([f EXCEPT !.stack = Shift(@, 2 + topicsAmount),
                                 !.mem = ld.mem,
                                 !.logs = Append(@, logEntry)])

Pop ==
  /\ Fetch /\ opcode = POP
  /\ Continue([Top EXCEPT !.stack = Shift(@, 1)])

\* STOP: pc = code.length, then pc++
Stop ==
  /\ Fetch /\ opcode = STOP
  /\ Continue([Top EXCEPT !.pc = Len(Top.code)])

\* the arithmetic and comparison cases: return exec2op(...)
Exec2 ==
  /\ Fetch /\ isExec2(opcode)
  /\ Return(exec2(Top.stack, operations(opcode)))

\* NOT: ~undefined is the number -1, which toUnsigned cannot mix with a BigInt
Not ==
  /\ Fetch /\ opcode = NOT
  /\ LET f == Top
         val == At(f.stack, 1)
     IN  IF val = UNDEF THEN Throw
         ELSE Continue([f EXCEPT !.stack = <<toUnsigned(-val - 1)>> \o Shift(@, 1)])

\* ISZERO: undefined == 0n is false
IsZero ==
  /\ Fetch /\ opcode = ISZERO
  /\ Continue([Top EXCEPT !.stack = <<toBigInt(At(@, 1) = 0)>> \o Shift(@, 1)])

Invalid ==
  /\ Fetch /\ opcode = INVALID
  /\ Return(error(UNDEF))

\* the cases that push one value read from the activation
isEnv(op) == op \in {PC, GAS, MSIZE, ADDRESS, CALLER, ORIGIN, CALLVALUE, CALLDATASIZE}

envValue(f, op) ==
  CASE op = PC -> f.pc
    [] op = GAS -> UINT256_CEIL - 1
    [] op = MSIZE -> f.mem.msize
    [] op = ADDRESS -> f.tx.address
    [] op = CALLER -> f.tx.caller
    [] op = ORIGIN -> f.tx.origin
    [] op = CALLVALUE -> f.tx.value
    [] op = CALLDATASIZE -> Len(f.tx.data)

Env ==
  /\ Fetch /\ isEnv(opcode)
  /\ Continue([Top EXCEPT !.stack = <<envValue(Top, opcode)>> \o @])

\* jump(): whether the destination is valid; pc is set by the caller below
\* jump taking any destination that lies inside the code
jumpUnchecked(f, destination) == destination \in 0..(Len(f.code) - 1)

jump(f, destination) == destination \in f.dests

Jump ==
  /\ Fetch /\ opcode = JUMP
  /\ LET f == Top
         destination == At(f.stack, 1)
     IN  IF jump(f, destination)
         THEN Continue([f EXCEPT !.stack = Shift(@, 1), !.pc = destination])
         ELSE Return(error(UNDEF))

\* JUMPI that shifts the destination only and leaves the condition on the stack
JumpIKeepsCondition ==
  /\ Fetch /\ opcode = JUMPI
  /\ LET f == Top
         destination == At(f.stack, 1)
         conditional == At(f.stack, 2)
     IN  IF conditional # 0
         THEN IF jump(f, destination)
              THEN Continue([f EXCEPT !.stack = Shift(@, 1), !.pc = destination])
              ELSE Return(error(UNDEF))
         ELSE Continue([f EXCEPT !.stack = Shift(@, 1)])

\* JUMPI: conditional !== 0n holds for undefined too
JumpI ==
  /\ Fetch /\ opcode = JUMPI
  /\ LET f == Top
         destination == At(f.stack, 1)
         conditional == At(f.stack, 2)
     IN  IF conditional # 0
         THEN IF jump(f, destination)
              THEN Continue([f EXCEPT !.stack = Shift(@, 2), !.pc = destination])
              ELSE Return(error(UNDEF))
         ELSE Continue([f EXCEPT !.stack = Shift(@, 2)])

\* MSTORE and MSTORE8
MStore ==
  /\ Fetch /\ opcode \in {MSTORE, MSTORE8}
  /\ LET f == Top
         st == memStore(f.mem, At(f.stack, 1), At(f.stack, 2),
                        IF opcode = MSTORE8 THEN 1 ELSE UNDEF)
     IN  IF st.threw THEN Throw
         ELSE Continue([f EXCEPT !.stack = Shift(@, 2), !.mem = st.mem])

MLoad ==
  /\ Fetch /\ opcode = MLOAD
  /\ LET f == Top
         ld == memLoad(f.mem, At(f.stack, 1), UNDEF)
     IN  IF ld.threw THEN Throw
         ELSE Continue([f EXCEPT !.stack = <<ld.value>> \o Shift(@, 1), !.mem = ld.mem])

\* SSTORE with the contextWritable check left out
SStoreUnchecked ==
  /\ Fetch /\ opcode = SSTORE
  /\ storage' = storageStore(storage, At(Top.stack, 1), At(Top.stack, 2))
  /\ frames' = [frames EXCEPT ![Len(frames)] =
                  [Top EXCEPT !.stack = Shift(@, 2), !.pc = @ + 1]]
  /\ UNCHANGED results

\* SSTORE on the module-level storage
SStore ==
  /\ Fetch /\ opcode = SSTORE
  /\ LET f == Top
     IN  IF ~f.writable THEN Return(error(UNDEF))
         ELSE /\ storage' = storageStore(storage, At(f.stack, 1), At(f.stack, 2))
              /\ frames' = [frames EXCEPT ![Len(frames)] =
                              [f EXCEPT !.stack = Shift(@, 2), !.pc = @ + 1]]
              /\ UNCHANGED results

\* what SLOAD pushes in activation f: storage.load(key), whatever f.tx.address
sload(f, key) == storageLoad(storage, key)

SLoad ==
  /\ Fetch /\ opcode = SLOAD
  /\ Continue([Top EXCEPT !.stack = <<sload(Top, At(@, 1))>> \o Shift(@, 1)])

\* RETURN: sets returnValue and breaks
ReturnOp ==
  /\ Fetch /\ opcode = RETURN
  /\ LET f == Top
         ld == memLoad(f.mem, At(f.stack, 1), At(f.stack, 2))
     IN  IF ld.threw THEN Throw
         ELSE Continue([f EXCEPT !.stack = Shift(@, 2), !.mem = ld.mem,
                                 !.returnValue = ld.value])

Revert ==
  /\ Fetch /\ opcode = REVERT
  /\ LET f == Top
         ld == memLoad(f.mem, At(f.stack, 1), At(f.stack, 2))
     IN  IF ld.threw THEN Throw
         ELSE Return(error(ld.value))

CallDataLoad ==
  /\ Fetch /\ opcode = CALLDATALOAD
  /\ Continue([Top EXCEPT !.stack =
        <<loadFromUint8ArrayFn(Top.tx.data, At(@, 1), WordBytes)>> \o Shift(@, 1)])

\* state[numberToHexFormatted(address)]?.code?.bin || ""
codeBin(state, address) ==
  LET key == numberToHexFormatted(address)
  IN  IF key \in DOMAIN state THEN state[key].code ELSE <<>>

\* txSub with the caller of every callee inherited, as DELEGATECALL's is
txSubCallerKept(op, tx, gas, address, value, dataSub) ==
  [address |-> IF op = DELEGATECALL THEN tx.address ELSE address,
   caller |-> tx.caller,
   origin |-> IF op = DELEGATECALL THEN tx.origin ELSE tx.address,
   gasPrice |-> gas, value |-> value, data |-> dataSub]

\* the callee's tx: addressSub, callerSub, originSub and the txSub literal
txSub(op, tx, gas, address, value, dataSub) ==
  LET addressSub == IF op = DELEGATECALL THEN tx.address ELSE address
      callerSub == IF op = DELEGATECALL THEN tx.caller ELSE tx.address
      originSub == IF op = DELEGATECALL THEN tx.origin ELSE tx.address
  IN  [address |-> addressSub, caller |-> callerSub, origin |-> originSub,
       gasPrice |-> gas, value |-> value, data |-> dataSub]

\* STATICCALL, DELEGATECALL and CALL up to the recursive call
Call ==
  /\ Fetch /\ opcode \in {STATICCALL, DELEGATECALL, CALL}
  /\ LET f == Top
         k == IF opcode = CALL THEN 1 ELSE 0
         gas == At(f.stack, 1)
         address == At(f.stack, 2)
         value == IF opcode = CALL THEN At(f.stack, 3) ELSE f.tx.value
         argsOffset == At(f.stack, 3 + k)
         argsSize == At(f.stack, 4 + k)
         retOffset == At(f.stack, 5 + k)
         retSize == At(f.stack, 6 + k)
         ld == memLoad(f.mem, argsOffset, argsSize)
         dataSub == hexStringToUint8Array(toString16(ld.value))
         codeSub == hexStringToUint8Array(codeBin(f.state, address))
     IN  IF opcode = CALL /\ ~f.writable THEN Return(error(UNDEF))
         ELSE IF ld.threw THEN Throw
         ELSE /\ frames' = [frames EXCEPT ![Len(frames)] =
                               [f EXCEPT !.stack = Shift(@, 6 + k), !.mem = ld.mem,
                                         !.pend = [opcode |-> opcode, retOffset |-> retOffset,
                                                   retSize |-> retSize, value |-> value,
                                                   before |-> storage]]]
                            \o <<NewFrame(codeSub, txSub(opcode, f.tx, gas, address, value, dataSub),
                                         f.state, opcode # STATICCALL)>>
              /\ UNCHANGED <<storage, results>>

\* the sub-call result handling with the callee's failure handed on: the
\* caller returns an error when the callee failed
CallReturnPropagating ==
  /\ Len(frames) >= 2
  /\ Top.res.kind = "returned"
  /\ frames[Len(frames) - 1].pend.opcode \in {STATICCALL, DELEGATECALL, CALL}
  /\ LET result == Top.res
         f == frames[Len(frames) - 1]
     IN  /\ frames' = Append(SubSeq(frames, 1, Len(frames) - 2),
                             IF result.success
                             THEN [f EXCEPT !.stack = <<1>> \o @, !.state = Top.state,
                                            !.pend = NoPending, !.pc = @ + 1]
                             ELSE [f EXCEPT !.res = error(UNDEF), !.pend = NoPending])
         /\ UNCHANGED <<storage, results>>

\* STATICCALL, DELEGATECALL and CALL after the recursive call returned; the
\* callee worked on the caller's state object
CallReturn ==
  /\ Len(frames) >= 2
  /\ Top.res.kind = "returned"
  /\ frames[Len(frames) - 1].pend.opcode \in {STATICCALL, DELEGATECALL, CALL}
  /\ LET result == Top.res
         f == frames[Len(frames) - 1]
         truthy == result.return # UNDEF /\ result.return # 0
         st == IF truthy
               THEN memStore(f.mem, f.pend.retOffset, result.return, f.pend.retSize)
               ELSE [mem |-> f.mem, threw |-> FALSE]
     IN  IF st.threw THEN Throw
         ELSE /\ frames' = Append(SubSeq(frames, 1, Len(frames) - 2),
                              [f EXCEPT !.mem = st.mem,
                                        !.lastSubReturn = IF truthy THEN result.return ELSE UNDEF,
                                        !.stack = <<toBigInt(result.success)>> \o @,
                                        !.state = Top.state,
                                        !.pend = NoPending,
                                        !.pc = @ + 1])
              /\ UNCHANGED <<storage, results>>

\* RETURNDATASIZE: BigInt() of a half throws a RangeError
ReturnDataSize ==
  /\ Fetch /\ opcode = RETURNDATASIZE
  /\ LET f == Top
         digits == IF f.lastSubReturn # UNDEF /\ f.lastSubReturn # 0
                   THEN Len(toString16(f.lastSubReturn)) ELSE 0
     IN  IF digits % 2 = 1 THEN Throw
         ELSE Continue([f EXCEPT !.stack = <<digits \div 2>> \o @])

\* SELFDESTRUCT: reading .balance of a missing account throws; breaks
SelfDestruct ==
  /\ Fetch /\ opcode = SELFDESTRUCT
  /\ LET f == Top
         address == At(f.stack, 1)
         self == numberToHexFormatted(f.tx.address)
         key == numberToHexFormatted(address)
         account == [balance |-> f.state[self].balance, nonce |-> 0,
                     code |-> <<>>, storage |-> <<>>]
     IN  IF ~f.writable THEN Return(error(UNDEF))
         ELSE IF self \notin DOMAIN f.state THEN Throw
         ELSE Continue([f EXCEPT !.stack = Shift(@, 1),
                                 !.state = [a \in (DOMAIN f.state \cup {key}) \ {self} |->
                                              IF a = key THEN account ELSE f.state[a]]])

BLOCKHASH == 64

\* opcodes with no case in the switch: BLOCKHASH, JUMPDEST, CALLCODE and the
\* bytes that are no opcode
isNoCase(op) ==
  op \in {BLOCKHASH, JUMPDEST, CALLCODE} \cup (12..15) \cup (30..31) \cup (33..47)
         \cup (73..79) \cup (92..95) \cup (165..239) \cup (246..249) \cup (251..252)

NoCase ==
  /\ Fetch /\ isNoCase(opcode)
  /\ Continue(Top)

\* the loop ends: return {success: true, stack, logs, return: returnValue}
finalResult(f) ==
  [kind |-> "returned", success |-> TRUE, stack |-> f.stack,
   hasLogs |-> TRUE, logs |-> f.logs, return |-> f.returnValue]

Finish ==
  /\ Running /\ Top.pc >= Len(Top.code)
  /\ Return(finalResult(Top))

\* the outermost activation hands its result to the caller of evm()
TopReturn ==
  /\ Len(frames) = 1
  /\ Top.res.kind = "returned"
  /\ frames' = <<>>
  /\ results' = Append(results, [code |-> Top.code, writable |-> Top.writable,
                                 res |-> Top.res])
  /\ UNCHANGED storage

-----------------------------------------------------------------------------
(* Inputs: the code handed to the entry point and the fixture's world state *)

P1(v) == <<PUSH1, v>>
P2(hi, lo) == <<PUSH2, hi, lo>>

\* the hex string of a fixture's code.bin
Bin(bytes) ==
  [i \in 1..(2 * Len(bytes)) |->
      IF i % 2 = 1 THEN bytes[(i + 1) \div 2] \div 16 ELSE bytes[i \div 2] % 16]

\* operands pushed in reverse, then the opcode
CallSnippet(op, address, value, argsOffset, argsSize, retOffset, retSize) ==
  P1(retSize) \o P1(retOffset) \o P1(argsSize) \o P1(argsOffset)
    \o (IF op \in {CALL, CALLCODE} THEN P1(value) ELSE <<>>) \o P1(address) \o P1(1) \o <<op>>

\* addresses of the fixture: tx.to, tx.from, tx.origin and the accounts
Self == 161
Sender == 225
Origin == 224
Writer == 177
Delegator == 178
Logger == 179
Returner == 180
Reverter == 181
Nester == 182
Probe == 183
Destroyer == 184
Creator == 185
Underflower == 186
Jumper == 187
Aborter == 188
Nobody == 204

AccountCode(a) ==
  CASE a = Writer -> P1(7) \o P1(1) \o <<SSTORE, STOP>>
    [] a = Delegator -> CallSnippet(DELEGATECALL, Writer, 0, 0, 0, 0, 0)
    [] a = Logger -> P1(1) \o P1(0) \o <<LOG0>>
    [] a = Returner -> P2(171, 205) \o P1(0) \o <<MSTORE>> \o P1(2) \o P1(0) \o <<RETURN>>
    [] a = Reverter -> P1(9) \o P1(2) \o <<SSTORE>> \o P1(0) \o P1(0) \o <<REVERT>>
    [] a = Nester -> CallSnippet(CALL, Writer, 5, 0, 0, 0, 0)
    [] a = Probe -> <<ADDRESS, CALLER, CALLVALUE, ORIGIN, CALLDATASIZE, STOP>>
    [] a = Destroyer -> P1(Nobody) \o <<SELFDESTRUCT>>
    [] a = Creator -> P1(0) \o P1(0) \o P1(0) \o <<CREATE>>
    [] a = Underflower -> <<ADD>>
    [] a = Jumper -> P1(5) \o <<JUMP>>
    [] a = Aborter -> <<INVALID>>
    [] OTHER -> <<>>

Callees ==
  {Writer, Delegator, Logger, Returner, Reverter, Nester, Probe, Destroyer, Creator,
   Underflower, Jumper, Aborter}

\* the fixture's state, keyed as numberToHexFormatted prints an address
InitState ==
  [key \in {numberToHexFormatted(a) : a \in Callees \cup {Self}} |->
     LET a == CHOOSE b \in Callees \cup {Self} : numberToHexFormatted(b) = key
     IN  [balance |-> IF a = Self THEN 9 ELSE 1, nonce |-> 0,
          code |-> Bin(AccountCode(a)), storage |-> <<>>]]

\* the tx the test builds from the fixture
TopTx ==
  [address |-> Self, caller |-> Sender, origin |-> Origin, gasPrice |-> 1,
   value |-> 3, data |-> <<18, 52>>]

CallSnippets ==
  {CallSnippet(CALL, a, 5, 0, 2, 0, 2) :
      a \in {Writer, Delegator, Logger, Returner, Reverter, Probe, Destroyer, Nobody,
              Underflower, Jumper, Aborter}}
  \cup {CallSnippet(CALL, Returner, 5, 0, 2, 0, 1)}
  \cup {CallSnippet(DELEGATECALL, a, 0, 0, 2, 0, 2) :
      a \in {Writer, Logger, Returner, Probe, Destroyer}}
  \cup {CallSnippet(STATICCALL, a, 0, 0, 2, 0, 2) :
      a \in {Writer, Delegator, Logger, Returner, Nester, Probe, Destroyer, Creator}}

\* PUSH1 5, PUSH1 3, PUSH1 8, JUMPI, STOP, JUMPDEST, ADD, STOP
JumpiFixture == P1(5) \o P1(3) \o P1(8) \o <<JUMPI, STOP, JUMPDEST, ADD, STOP>>

BasicSnippets ==
  { JumpiFixture, P1(5) \o <<NOT>>,
    P1(5) \o P1(3) \o <<ADD>>, <<MUL>>, P1(5) \o P1(3) \o <<SUB>>,
    P1(5) \o P1(3) \o P1(4) \o <<ADDMOD>>, <<ADDMOD>>, P1(3) \o <<MULMOD>>,
    P1(3) \o <<DUP1, EQ>>,
    P1(7) \o P1(1) \o <<SSTORE>>, P1(1) \o <<SLOAD>>,
    P1(2) \o P1(0) \o <<LOG0>>, P1(6) \o P1(1) \o P1(0) \o <<LOG0 + 1>>,
    P1(0) \o <<DUP1, DUP1, DUP1, DUP1, DUP1, LOG4>>,
    P2(171, 205) \o P1(0) \o <<MSTORE>>, P1(239) \o P1(1) \o <<MSTORE8>>,
    P1(0) \o <<MLOAD, MSIZE>>,
    P1(2) \o P1(0) \o <<RETURN>>, P1(0) \o P1(0) \o <<REVERT>>,
    <<STOP>>, <<INVALID>>, P1(Nobody) \o <<SELFDESTRUCT>>,
    P1(3) \o <<JUMP, JUMPDEST>>, P1(5) \o <<JUMP>>, P2(0, JUMPDEST),
    P1(1) \o P1(4) \o <<JUMPI, JUMPDEST>>, P1(0) \o P1(9) \o <<JUMPI>>,
    <<POP>>, <<DUP1>>, P1(1) \o P1(2) \o <<SWAP1>>, <<ISZERO>>,
    <<ADDRESS, CALLER, CALLVALUE>>, <<ORIGIN, PC, GAS>>, <<CALLDATASIZE>>,
    P1(0) \o <<CALLDATALOAD>>, <<RETURNDATASIZE>>,
    CallSnippet(CALLCODE, Writer, 5, 0, 2, 0, 2),
    P1(0) \o P1(0) \o P1(0) \o <<CREATE>>, P1(0) \o P1(0) \o P1(0) \o P1(0) \o <<CREATE2>>,
    P1(ADDRESS) \o P1(0) \o <<MSTORE8>> \o P1(1) \o P1(0) \o P1(0) \o <<CREATE>>,
    <<SWAP1>>,
    <<PUSH1>> }

Snippets == CallSnippets \cup BasicSnippets

\* the code of a run: a first part and a second part, either may be empty
Programs == {a \o b : a, b \in Snippets \cup {<<>>}}

\* evm(code, tx, block, state, contextWritable) is called on a fresh module
Init ==
  /\ \E code \in Programs, contextWritable \in BOOLEAN :
        frames = <<NewFrame(code, TopTx, InitState, contextWritable)>>
  /\ storage = NewStorage
  /\ results = <<>>

Next ==
  \/ Not \/ Push \/ Dup \/ Swap \/ Create \/ CreateReturn \/ Log \/ Pop \/ Stop
  \/ Exec2 \/ IsZero \/ Invalid \/ Env \/ Jump \/ JumpI \/ MStore \/ MLoad
  \/ SStore \/ SLoad \/ ReturnOp \/ Revert \/ CallDataLoad \/ Call \/ CallReturn
  \/ ReturnDataSize \/ SelfDestruct \/ NoCase \/ Finish \/ TopReturn

Spec == Init /\ [][Next]_vars

-----------------------------------------------------------------------------
(* The fixture loop of evm.test.ts: one module, evm() called test after test *)

SuiteSnippets ==
  { P1(7) \o P1(1) \o <<SSTORE>>, P1(1) \o <<SLOAD>>, P1(5) \o P1(3) \o <<ADD>>,
    P1(2) \o P1(0) \o <<LOG0>>, <<STOP>>, CallSnippet(CALL, Writer, 5, 0, 2, 0, 2) }

SuitePrograms == {a \o b : a, b \in SuiteSnippets \cup {<<>>}}

\* the next test calls evm() with its own tx and state; the module stays loaded
NextTest ==
  /\ frames = <<>>
  /\ Len(results) < MaxRuns
  /\ \E code \in SuitePrograms :
        frames' = <<NewFrame(code, TopTx, InitState, TRUE)>>
  /\ UNCHANGED <<storage, results>>

InitSuite ==
  /\ frames = <<>>
  /\ storage = NewStorage
  /\ results = <<>>

NextSuite ==
  \/ NextTest \/ Push \/ Log \/ Stop \/ Exec2 \/ SStore \/ SLoad
  \/ Call \/ CallReturn \/ Finish \/ TopReturn

SpecSuite == InitSuite /\ [][NextSuite]_vars

-----------------------------------------------------------------------------
(* Single operations on operands drawn from the edges of the word range *)

\* the PUSH of a whole word: the opcode and the big-endian bytes of v
PW(v) ==
  <<PUSH1 + WordBytes - 1>>
    \o [i \in 1..WordBytes |-> (v \div (256 ^ (WordBytes - i))) % 256]

Words ==
  {0, 1, 2, 7, 8, 15, 16, 127, 128, 255,
   (UINT256_CEIL \div 2) - 1, UINT256_CEIL \div 2, UINT256_CEIL - 1}

\* factors whose product with a word stays in the range of the checker's integers
SmallWords == {w \in Words : w <= 16}

BinaryOps ==
  {ADD, SUB, DIV, MOD, LT, GT, EQ, SIGNEXTEND, SDIV, SMOD, SLT, SGT, AND, OR,
   XOR, SHL, SHR, SAR}

\* op(a, b [, n]): the operands are pushed in reverse, a ends on top
OpPrograms ==
  {PW(b) \o PW(a) \o <<op>> : a \in Words, b \in Words, op \in BinaryOps}
  \cup {PW(b) \o PW(a) \o <<MUL>> : a \in Words, b \in SmallWords}
  \cup {PW(n) \o PW(b) \o PW(a) \o <<ADDMOD>> : a \in Words, b \in Words, n \in Words}
  \cup {PW(n) \o PW(b) \o PW(a) \o <<MULMOD>> : a \in Words, b \in SmallWords, n \in Words}
  \cup {PW(a) \o <<NOT>> : a \in Words}
  \cup {<<op>> : op \in BinaryOps \cup {MUL, ADDMOD, MULMOD, NOT}}
  \cup {PW(a) \o <<op>> : a \in Words, op \in BinaryOps \cup {MUL, ADDMOD, MULMOD}}
  \cup {PW(b) \o PW(a) \o <<op>> : a \in SmallWords, b \in Words, op \in {ADDMOD, MULMOD}}
  \cup {PW(v) \o P1(off) \o <<MSTORE>> \o P1(off) \o <<MLOAD, MSIZE>> :
           v \in Words, off \in 0..(MemSize - 1)}
  \cup {PW(v) \o P1(off) \o <<MSTORE8, MSIZE>> : v \in Words, off \in 0..(MemSize - 1)}

InitOps ==
  /\ \E code \in OpPrograms : frames = <<NewFrame(code, TopTx, InitState, TRUE)>>
  /\ storage = NewStorage
  /\ results = <<>>

NextOps ==
  \/ Push \/ Exec2 \/ Not \/ MStore \/ MLoad \/ Env \/ Finish \/ TopReturn

SpecOps == InitOps /\ [][NextOps]_vars

-----------------------------------------------------------------------------
(* Properties *)

HaltOpcodes == {STOP, RETURN, REVERT, INVALID, SELFDESTRUCT}

\* C1: a frame ends only at a halt opcode, at the end of its code or on an
\* error; so a frame that returned success while opcodes are left after the
\* one at pc stopped at STOP, RETURN, REVERT, INVALID or SELFDESTRUCT, never
\* at an arithmetic, comparison or bitwise opcode.
C1_FrameEndsOnlyAtHalt ==
  \A i \in DOMAIN frames :
     LET f == frames[i]
     IN  (f.res.kind = "returned" /\ f.res.success /\ f.pc + 1 < Len(f.code))
            => f.code[f.pc + 1] \in HaltOpcodes

\* C2: RETURN and SELFDESTRUCT are halts: the step that executes one of them
\* leaves the frame with a result or with pc at the end of its code, so no
\* opcode after it runs in that frame.
C2_ReturnAndSelfdestructHalt ==
  [][(Fetch /\ opcode \in {RETURN, SELFDESTRUCT} /\ frames' # <<>>)
        => LET g == frames'[Len(frames)]
           IN  g.res.kind = "returned" \/ g.pc >= Len(g.code)]_vars

RECURSIVE pushData(_, _)
\* the offsets inside the immediate data of a PUSH, decoding from offset i:
\* a PUSHn at offset p covers p+1..p+n
pushData(code, i) ==
  IF i >= Len(code) THEN {}
  ELSE IF isPush(code[i + 1])
       THEN LET n == code[i + 1] - PUSH1 + 1
            IN  ((i + 1)..(i + n)) \cup pushData(code, i + n + 1)
       ELSE pushData(code, i + 1)

JumpDestinations(code) ==
  {i \in 0..(Len(code) - 1) : code[i + 1] = JUMPDEST /\ i \notin pushData(code, 0)}

\* C3: the valid-jump-destination set of every frame is exactly the set of
\* offsets that hold JUMPDEST and are not inside the immediate data of a PUSH.
C3_ValidJumpDestinations ==
  \A i \in DOMAIN frames : frames[i].dests = JumpDestinations(frames[i].code)

\* some frame of the chain is suspended in a STATICCALL
InStaticCall == \E i \in 1..(Len(frames) - 1) : frames[i].pend.opcode = STATICCALL

\* the outermost such frame
StaticCaller ==
  CHOOSE i \in 1..(Len(frames) - 1) :
     /\ frames[i].pend.opcode = STATICCALL
     /\ \A k \in 1..(i - 1) : frames[k].pend.opcode # STATICCALL

\* C4: while the sub-tree started by a STATICCALL runs, at any depth, no step
\* changes storage, and the STATICCALL's caller has the same world state and
\* logs once the call has returned as when it made it.
C4_StaticSubtreeMutatesNothing ==
  [][InStaticCall =>
        /\ storage' = storage
        /\ Len(frames') >= StaticCaller =>
              /\ frames'[StaticCaller].state = frames[StaticCaller].state
              /\ frames'[StaticCaller].logs = frames[StaticCaller].logs]_vars

StateOpcodes == {CALL, CREATE, CREATE2, SSTORE, SELFDESTRUCT} \cup (LOG0..LOG4)

\* C5: in a frame entered with writable = false each of CALL, CREATE, CREATE2,
\* SSTORE, LOG0..LOG4 and SELFDESTRUCT ends the frame at once with success =
\* false and an empty result stack; no operand is popped and storage, world
\* state and the log buffer stay as they are.
C5_StaticViolationFails ==
  [][(Fetch /\ ~Top.writable /\ opcode \in StateOpcodes) =>
        /\ Len(frames') = Len(frames)
        /\ \A i \in 1..(Len(frames) - 1) : frames'[i] = frames[i]
        /\ LET g == frames'[Len(frames)]
           IN  /\ g.res.kind = "returned" /\ ~g.res.success /\ g.res.stack = <<>>
               /\ g.stack = Top.stack /\ g.logs = Top.logs /\ g.state = Top.state
               /\ g.pc = Top.pc
        /\ storage' = storage
        /\ results' = results]_vars

\* a STATICCALL callee has failed at SSTORE with both operands still on its stack
C5_Witness ==
  \E i \in DOMAIN frames :
     LET f == frames[i]
     IN  /\ i >= 2 /\ frames[i - 1].pend.opcode = STATICCALL /\ ~f.writable
         /\ f.res.kind = "returned" /\ ~f.res.success
         /\ f.pc < Len(f.code) /\ f.code[f.pc + 1] = SSTORE
         /\ f.stack = <<1, 7>>

Accounts == Callees \cup {Self, Nobody, CreateAddress}

StorageKeys == 0..9

\* what SLOAD(key) pushes in a frame that executes as address a
SloadAs(a, key) == sload([tx |-> [address |-> a]], key)

\* C6: storage is keyed by contract address: an SSTORE in a frame executing
\* as A changes what SLOAD returns for no other address B, whatever the key.
C6_StorageKeyedByAddress ==
  [][(Fetch /\ opcode = SSTORE) =>
        \A b \in Accounts \ {Top.tx.address} : \A key \in StorageKeys :
           SloadAs(b, key)' = SloadAs(b, key)]_vars

\* C7: top-level executions share no mutable state: two invocations of the
\* entry point with equal code, tx, block, state and writable flag return
\* equal results.
C7_EqualInputsEqualResults ==
  \A i, j \in DOMAIN results :
     (results[i].code = results[j].code /\ results[i].writable = results[j].writable)
        => results[i].res = results[j].res

\* C8: when a sub-frame returns successfully its log records join the
\* caller's, after the records the caller emitted before the call (depth-first
\* execution order).
C8_SubFrameLogsInOrder ==
  [][(Len(frames) >= 2 /\ Top.res.kind = "returned" /\ Top.res.success
         /\ (\A i \in DOMAIN frames : frames[i].writable)
         /\ Len(frames') = Len(frames) - 1)
        => frames'[Len(frames')].logs = frames[Len(frames) - 1].logs \o Top.logs]_vars

\* C9: the logs of a successful result are the frame's log buffer: one record
\* per LOGn executed, in execution order (a result without a logs field
\* counts as one with no records).
C9_ResultLogsAreTheLogBuffer ==
  \A i \in DOMAIN frames :
     LET f == frames[i]
     IN  (f.res.kind = "returned" /\ f.res.success)
            => (IF f.res.hasLogs THEN f.res.logs ELSE <<>>) = f.logs

\* C10: the callee of CALL and DELEGATECALL executes state[addr].code; for
\* CALL its address is the popped addr, its caller the calling frame's address
\* and its value the popped value (seven operands popped); for DELEGATECALL
\* its address, caller and value are the calling frame's (six operands popped).
C10_CallFrameContext ==
  [][(Fetch /\ opcode \in {CALL, DELEGATECALL} /\ Len(frames') = Len(frames) + 1) =>
        LET f == Top
            c == frames'[Len(frames')]
            addr == At(f.stack, 2)
            key == numberToHexFormatted(addr)
        IN  /\ c.code = hexStringToUint8Array(
                           IF key \in DOMAIN f.state THEN f.state[key].code ELSE <<>>)
            /\ (key \in DOMAIN InitState /\ key \in DOMAIN f.state
                   /\ f.state[key] = InitState[key]) => c.code = AccountCode(addr)
            /\ opcode = CALL =>
                  /\ c.tx.address = addr
                  /\ c.tx.caller = f.tx.address
                  /\ c.tx.value = At(f.stack, 3)
                  /\ frames'[Len(frames)].stack = Shift(f.stack, 7)
            /\ opcode = DELEGATECALL =>
                  /\ c.tx.address = f.tx.address
                  /\ c.tx.caller = f.tx.caller
                  /\ c.tx.value = f.tx.value
                  /\ frames'[Len(frames)].stack = Shift(f.stack, 6)]_vars

\* a CALL to Delegator with value 5 whose callee has DELEGATECALLed Writer:
\* Writer's code runs as Delegator, called by Self, with value 5
C10_Witness ==
  /\ Len(frames) = 3
  /\ frames[1].pend.opcode = CALL /\ frames[2].pend.opcode = DELEGATECALL
  /\ frames[2].tx = [address |-> Delegator, caller |-> Self, origin |-> Self,
                     gasPrice |-> 1, value |-> 5, data |-> <<>>]
  /\ frames[3].tx.address = Delegator /\ frames[3].tx.caller = Self
  /\ frames[3].tx.value = 5
  /\ frames[3].code = AccountCode(Writer)

\* C11: the callee of a STATICCALL has address = the popped addr, caller =
\* the calling frame's address, value = 0 and writable = false.
C11_StaticCallFrameContext ==
  [][(Fetch /\ opcode = STATICCALL /\ Len(frames') = Len(frames) + 1) =>
        LET f == Top
            c == frames'[Len(frames')]
        IN  /\ c.tx.address = At(f.stack, 2)
            /\ c.tx.caller = f.tx.address
            /\ c.tx.value = 0
            /\ ~c.writable]_vars

\* C12: CALLCODE pops (gas, addr, value, argsOffset, argsSize, retOffset,
\* retSize) and executes state[addr].code in a sub-frame with address = the
\* calling frame's address, caller = the calling frame's address and value =
\* the popped value.
C12_CallCodeFrameContext ==
  [][(Fetch /\ opcode = CALLCODE /\ Top.writable /\ Len(Top.stack) >= 7) =>
        /\ Len(frames') = Len(frames) + 1
        /\ LET f == Top
               c == frames'[Len(frames')]
           IN  /\ c.code = hexStringToUint8Array(codeBin(f.state, At(f.stack, 2)))
               /\ c.tx.address = f.tx.address
               /\ c.tx.caller = f.tx.address
               /\ c.tx.value = At(f.stack, 3)
               /\ frames'[Len(frames)].stack = Shift(f.stack, 7)]_vars

C14_FailedSubCallRolledBack ==
  [][(/\ Len(frames) >= 2
      /\ Top.res.kind = "returned" /\ ~Top.res.success
      /\ frames[Len(frames) - 1].pend.opcode \in {CALL, DELEGATECALL, STATICCALL}
      /\ Len(frames') = Len(frames) - 1) =>
        /\ storage' = frames[Len(frames) - 1].pend.before
        /\ frames'[Len(frames')].state = frames[Len(frames) - 1].state]_vars

\* the payload of the fixture's Returner, the slice its RETURN(0, 2) read
ReturnerPayload == <<Top.mem.data[1], Top.mem.data[2]>>

\* C15: after a sub-frame returned payload R the caller's memory bytes
\* [retOffset, retOffset + min(retSize, |R|)) are the first min(retSize, |R|)
\* bytes of R; stated for the callee whose code is MSTORE(0, 0xabcd),
\* RETURN(0, 2).
C15_ReturnDataCopied ==
  [][(/\ Len(frames) >= 2
      /\ Top.res.kind = "returned" /\ Top.res.success
      /\ Top.code = AccountCode(Returner)
      /\ frames[Len(frames) - 1].pend.opcode \in {CALL, DELEGATECALL, STATICCALL}
      /\ Len(frames') = Len(frames) - 1) =>
        LET f == frames[Len(frames) - 1]
            R == ReturnerPayload
            n == IF f.pend.retSize < Len(R) THEN f.pend.retSize ELSE Len(R)
        IN  \A i \in 0..(n - 1) :
               frames'[Len(frames')].mem.data[f.pend.retOffset + i + 1] = R[i + 1]]_vars

\* the bytes [offset, offset + size) of a memory
MemSlice(mem, offset, size) == [i \in 1..size |-> mem.data[offset + i]]

\* C16: the calldata of the callee of CALL, DELEGATECALL and STATICCALL is the
\* caller's memory slice [argsOffset, argsOffset + argsSize): CALLDATASIZE in
\* the callee is argsSize and byte i of the calldata is caller memory byte
\* argsOffset + i.
C16_CalldataIsMemorySlice ==
  [][(/\ Fetch /\ opcode \in {CALL, DELEGATECALL, STATICCALL}
      /\ Len(frames') = Len(frames) + 1) =>
        LET f == Top
            k == IF opcode = CALL THEN 1 ELSE 0
            argsOffset == At(f.stack, 3 + k)
            argsSize == At(f.stack, 4 + k)
        IN  /\ Len(frames'[Len(frames')].tx.data) = argsSize
            /\ frames'[Len(frames')].tx.data = MemSlice(f.mem, argsOffset, argsSize)]_vars

\* C17: CREATE pops exactly three operands (value, offset, size) and CREATE2
\* exactly four (value, offset, size, salt); when the initcode frame has
\* returned, exactly one word is pushed: the new contract's address if it
\* succeeded, 0 if it failed.
C17_CreateStackEffect ==
  [][/\ (Fetch /\ isCreate(opcode) /\ Len(frames') = Len(frames) + 1) =>
           frames'[Len(frames)].stack =
              Shift(Top.stack, IF opcode = CREATE THEN 3 ELSE 4)
     /\ (/\ Len(frames) >= 2 /\ Top.res.kind = "returned"
         /\ isCreate(frames[Len(frames) - 1].pend.opcode)
         /\ Len(frames') = Len(frames) - 1) =>
           frames'[Len(frames')].stack =
              <<IF Top.res.success THEN CreateAddress ELSE 0>>
                 \o frames[Len(frames) - 1].stack]_vars

\* C18: the initcode of CREATE and CREATE2 runs in a fresh frame whose
\* executing address is the address of the contract being created, the one
\* pushed and entered in the world state when the initcode succeeds.
C18_InitcodeRunsAsNewContract ==
  [][/\ (Fetch /\ isCreate(opcode) /\ Len(frames') = Len(frames) + 1) =>
           /\ frames'[Len(frames')].tx.address = CreateAddress
           /\ frames'[Len(frames')].stack = <<>>
     /\ (/\ Len(frames) >= 2 /\ Top.res.kind = "returned" /\ Top.res.success
         /\ isCreate(frames[Len(frames) - 1].pend.opcode)
         /\ Len(frames') = Len(frames) - 1) =>
           /\ Top.tx.address = CreateAddress
           /\ numberToHexFormatted(CreateAddress) \in DOMAIN frames'[Len(frames')].state]_vars

\* C19: DUPn with fewer than n stack words and SWAPn with at most n stack
\* words are stack underflows: the frame ends at once with success = false
\* and an empty stack.
C19_DupSwapUnderflowFails ==
  [][(/\ Fetch
      /\ \/ isDup(opcode) /\ Len(Top.stack) < opcode - DUP1 + 1
         \/ isSwap(opcode) /\ Len(Top.stack) <= opcode - SWAP1 + 1
      /\ frames' # <<>>) =>
        LET g == frames'[Len(frames)]
        IN  g.res.kind = "returned" /\ ~g.res.success /\ g.res.stack = <<>>]_vars

\* C20: stack capacity and underflow are errors; here the underflow half: an
\* opcode that pops from an empty stack, POP or ISZERO, ends the frame with
\* success = false.
C20_PopFromEmptyStackFails ==
  [][(Fetch /\ opcode \in {POP, ISZERO} /\ Top.stack = <<>> /\ frames' # <<>>) =>
        LET g == frames'[Len(frames)]
        IN  g.res.kind = "returned" /\ ~g.res.success]_vars

\* C21 (as amended): executing 60 05 60 03 60 08 57 00 5b 01 00 returns
\* success = false with an empty stack: JUMPI pops the destination 8 and the
\* condition 3, lands on the JUMPDEST at offset 8, and ADD finds one word.
C21_JumpiFixtureFails ==
  \A i \in DOMAIN results :
     results[i].code = JumpiFixture =>
        /\ results[i].res.kind = "returned"
        /\ ~results[i].res.success
        /\ results[i].res.stack = <<>>

\* C21 as stated: the same bytecode returns success = true with stack [8]
C21_JumpiFixtureSucceeds ==
  \A i \in DOMAIN results :
     results[i].code = JumpiFixture =>
        results[i].res.success /\ results[i].res.stack = <<8>>

\* the bytecode has been executed and its result returned
C21_Witness ==
  \E i \in DOMAIN results :
     results[i].code = JumpiFixture /\ results[i].res.kind = "returned"

\* C22: every word on the stack of every result lies in [0, 2^w): no
\* out-of-range or negative value is left on a returned stack, whatever PUSH,
\* arithmetic, comparison, bitwise, shift and memory opcodes ran on in-range
\* operands.
C22_ResultWordsInRange ==
  \A i \in DOMAIN results :
     \A j \in DOMAIN results[i].res.stack :
        results[i].res.stack[j] \in 0..(UINT256_CEIL - 1)

\* C23: a memory write grows msize to cover the written range: after MSTORE
\* at off, msize is at least the word-aligned end of [off, off + word), and
\* after MSTORE8 at off, of [off, off + 1)
C23_StoreCoversRange ==
  [][(MStore /\ Len(frames') = Len(frames))
       => LET off  == At(Top.stack, 1)
              size == IF opcode = MSTORE8 THEN 1 ELSE WordBytes
          IN  frames'[Len(frames)].mem.msize
                >= ((off + size + WordBytes - 1) \div WordBytes) * WordBytes]_vars

\* x with bit 8k+7 copied into all higher bits of the word: the low k+1 bytes
\* as a two's-complement value, re-wrapped to the word
SignExtended(k, x) ==
  LET low  == x % (256 ^ (k + 1))
      half == (256 ^ (k + 1)) \div 2
  IN  IF low >= half THEN UINT256_CEIL - (256 ^ (k + 1)) + low ELSE low

\* C24: SIGNEXTEND(k, x) pushes x sign-extended from byte k for every k
\* below the last byte index of the word, and x unchanged for every larger k
C24_SignExtend ==
  \A i \in DOMAIN results :
     LET r == results[i]
         n == Len(r.code)
     IN  (/\ n = 2 * (WordBytes + 1) + 1
          /\ r.code[n] = SIGNEXTEND
          /\ r.res.kind = "returned")
         => LET x == loadBytes(r.code, 1, WordBytes)
                k == loadBytes(r.code, WordBytes + 2, WordBytes)
            IN  /\ r.res.success
                /\ r.res.stack = <<IF k < WordBytes - 1
                                   THEN SignExtended(k, x) ELSE x>>

RECURSIVE ShiftedLeft(_, _), ShiftedRight(_, _)
\* (x * 2^n) mod 2^w by n doublings, and floor(x / 2^n) by n halvings; both
\* stop once nothing is left of x
ShiftedLeft(n, x) ==
  IF x = 0 \/ n = 0 THEN x ELSE ShiftedLeft(n - 1, (2 * x) % UINT256_CEIL)
ShiftedRight(n, x) ==
  IF x = 0 \/ n = 0 THEN x ELSE ShiftedRight(n - 1, x \div 2)

\* C25: SHL(n, x) pushes (x * 2^n) mod 2^w and SHR(n, x) pushes
\* floor(x / 2^n) for every word x and every shift n, which is 0 once n
\* reaches the width of the word
C25_Shifts ==
  \A i \in DOMAIN results :
     LET r == results[i]
         c == Len(r.code)
     IN  (/\ c = 2 * (WordBytes + 1) + 1
          /\ r.code[c] \in {SHL, SHR}
          /\ r.res.kind = "returned")
         => LET x == loadBytes(r.code, 1, WordBytes)
                n == loadBytes(r.code, WordBytes + 2, WordBytes)
            IN  /\ r.res.success
                /\ r.res.stack = <<IF r.code[c] = SHL
                                   THEN ShiftedLeft(n, x) ELSE ShiftedRight(n, x)>>
                /\ n >= 8 * WordBytes => r.res.stack = <<0>>

\* a left shift by one that drops the top bit of the all-ones word
C25_Witness ==
  \E i \in DOMAIN results :
     /\ results[i].code = PW(UINT256_CEIL - 1) \o PW(1) \o <<SHL>>
     /\ results[i].res.kind = "returned"
     /\ results[i].res.stack = <<UINT256_CEIL - 2>>

\* the three operands of a program that pushes three whole words
ThirdPushed(code) == loadBytes(code, 1, WordBytes)
SecondPushed(code) == loadBytes(code, WordBytes + 2, WordBytes)
FirstPushed(code) == loadBytes(code, 2 * WordBytes + 3, WordBytes)

\* C26: ADDMOD(a, b, n) pushes (a + b) mod n and MULMOD(a, b, n) pushes
\* (a * b) mod n, the sum and the product taken at full width, and both push
\* 0 when n = 0
C26_ModularFullWidth ==
  \A i \in DOMAIN results :
     LET r == results[i]
         c == Len(r.code)
     IN  (/\ c = 3 * (WordBytes + 1) + 1
          /\ r.code[c] \in {ADDMOD, MULMOD}
          /\ r.res.kind = "returned")
         => LET n == ThirdPushed(r.code)
                b == SecondPushed(r.code)
                a == FirstPushed(r.code)
                wide == IF r.code[c] = ADDMOD THEN a + b ELSE a * b
            IN  /\ r.res.success
                /\ r.res.stack = <<IF n = 0 THEN 0 ELSE wide % n>>

\* an ADDMOD whose sum leaves the word range and whose result differs from
\* the one a reduced sum would give
C26_Witness ==
  \E i \in DOMAIN results :
     LET r == results[i]
         n == ThirdPushed(r.code)
         b == SecondPushed(r.code)
         a == FirstPushed(r.code)
     IN  /\ Len(r.code) = 3 * (WordBytes + 1) + 1
         /\ r.code[Len(r.code)] = ADDMOD
         /\ r.res.kind = "returned"
         /\ n > 0
         /\ a + b >= UINT256_CEIL
         /\ r.res.stack = <<(a + b) % n>>
         /\ (a + b) % n # ((a + b) % UINT256_CEIL) % n

\* the program that stores the word v at off and loads the word at off
RoundTrip(v, off) ==
  PW(v) \o P1(off) \o <<MSTORE>> \o P1(off) \o <<MLOAD, MSIZE>>

\* C27: for every word v and every offset off inside the memory buffer,
\* MSTORE(off, v) changes only the bytes [off, off + word) of the memory and
\* the MLOAD(off) that follows it pushes v
C27_StoreLoadRoundTrip ==
  [][/\ (MStore /\ opcode = MSTORE /\ At(Top.stack, 1) \in 0..(MemSize - 1))
          => /\ Len(frames') = Len(frames)
             /\ LET off == At(Top.stack, 1)
                IN  \A j \in 1..MemSize :
                       (j - 1 < off \/ j - 1 >= off + WordBytes)
                          => frames'[Len(frames)].mem.data[j] = Top.mem.data[j]
     /\ \A v \in Words, off \in 0..(MemSize - 1) :
          (MLoad /\ Top.code = RoundTrip(v, off))
             => /\ Len(frames') = Len(frames)
                /\ At(frames'[Len(frames)].stack, 1) = v]_vars

\* C28: SLOAD(k) in a frame executing as address A pushes the value of the
\* most recent SSTORE(k, .) made to A's storage and 0 if k was never stored.
\* The case checked: the top-level code neither stores nor runs a callee as
\* its own address (no SSTORE, DELEGATECALL or CALLCODE byte), so nothing
\* was stored to its storage and its SLOAD pushes 0.
C28_SloadOfUnwrittenKey ==
  [][(/\ SLoad
      /\ Len(frames) = 1
      /\ \A j \in DOMAIN Top.code :
            ~(Top.code[j] \in {SSTORE, DELEGATECALL, CALLCODE}))
        => At(frames'[1].stack, 1) = 0]_vars

\* C29: within one frame msize is a multiple of the word size and never
\* decreases, whatever opcode touches the memory; a fresh frame starts with
\* msize = 0
C29_MsizeAlignedMonotone ==
  [][\A i \in DOMAIN frames' :
        /\ frames'[i].mem.msize % WordBytes = 0
        /\ i \in DOMAIN frames => frames'[i].mem.msize >= frames[i].mem.msize
        /\ ~(i \in DOMAIN frames) => frames'[i].mem.msize = 0]_vars

\* a callee about to start on fresh memory while its caller's msize has grown
C29_Witness ==
  /\ Len(frames) = 2
  /\ frames[1].mem.msize > 0
  /\ frames[2].pc = 0
  /\ frames[2].mem.msize = 0

\* the failure result: success = false, an empty stack, no return value
FailedEmpty(res) ==
  res.kind = "returned" /\ ~res.success /\ res.stack = <<>>

\* C30: an opcode of exec2 executed with fewer words than it needs (two, or
\* three for ADDMOD and MULMOD) ends the frame with success = false and an
\* empty stack, and every result with success = false has an empty stack
C30_FailureHasEmptyStack ==
  [][/\ (Exec2 /\ Len(Top.stack) < Len(operations(opcode)) + 1)
          => FailedEmpty(frames'[Len(frames)].res)
     /\ \A i \in DOMAIN frames' :
          (frames'[i].res.kind = "returned" /\ ~frames'[i].res.success)
             => frames'[i].res.stack = <<>>
     /\ \A i \in DOMAIN results' :
          ~results'[i].res.success => results'[i].res.stack = <<>>]_vars

\* a MULMOD that found two words where it needs three
C30_Witness ==
  \E i \in DOMAIN results :
     /\ results[i].code = P1(5) \o <<NOT>> \o P1(3) \o <<MULMOD>>
     /\ FailedEmpty(results[i].res)

\* C31: JUMP(d), and JUMPI(d, cond) with cond # 0, fails the frame when d is
\* not in the destination set, pc staying where it was; with d in the set
\* the frame goes on behind the JUMPDEST at d; JUMPI with cond = 0 pops both
\* operands and goes on with the next opcode whatever d is
C31_JumpChecksDestination ==
  [][(Fetch /\ opcode \in {JUMP, JUMPI})
        => LET f    == Top
               g    == frames'[Len(frames)]
               d    == At(f.stack, 1)
               cond == At(f.stack, 2)
               used == IF opcode = JUMP THEN 1 ELSE 2
           IN  /\ Len(frames') = Len(frames)
               /\ IF opcode = JUMPI /\ cond = 0
                  THEN /\ g.res.kind = "running"
                       /\ g.pc = f.pc + 1
                       /\ g.stack = Shift(f.stack, 2)
                  ELSE IF d \in f.dests
                  THEN /\ g.res.kind = "running"
                       /\ f.code[d + 1] = JUMPDEST
                       /\ g.pc = d + 1
                       /\ g.stack = Shift(f.stack, used)
                  ELSE /\ g.res.kind = "returned" /\ ~g.res.success
                       /\ g.res.stack = <<>>
                       /\ g.pc = f.pc]_vars

\* a JUMPI with cond = 0 and a destination outside the set fell through, and
\* the JUMP behind it failed on a destination outside the set
C31_Witness ==
  /\ Len(frames) = 1
  /\ Top.code = P1(0) \o P1(9) \o <<JUMPI>> \o P1(5) \o <<JUMP>>
  /\ ~(9 \in Top.dests) /\ ~(5 \in Top.dests)
  /\ Top.pc = 7
  /\ Top.res.kind = "returned" /\ ~Top.res.success

\* C32: SELFDESTRUCT(beneficiary) in a writable frame, the beneficiary not
\* being the executing address, is a balance transfer: afterwards the
\* executing account is absent from the world state, the beneficiary's
\* balance is its previous balance (0 without an account) plus the executing
\* account's, and the beneficiary's code, nonce and storage are unchanged
C32_SelfDestructTransfers ==
  [][(/\ SelfDestruct
      /\ Top.writable
      /\ At(Top.stack, 1) # UNDEF
      /\ At(Top.stack, 1) # Top.tx.address
      /\ numberToHexFormatted(Top.tx.address) \in DOMAIN Top.state)
        => LET f    == Top
               self == numberToHexFormatted(f.tx.address)
               key  == numberToHexFormatted(At(f.stack, 1))
               had  == key \in DOMAIN f.state
               after == frames'[Len(frames)].state
           IN  /\ Len(frames') = Len(frames)
               /\ ~(self \in DOMAIN after)
               /\ key \in DOMAIN after
               /\ after[key].balance
                    = (IF had THEN f.state[key].balance ELSE 0) + f.state[self].balance
               /\ had => /\ after[key].code = f.state[key].code
                         /\ after[key].nonce = f.state[key].nonce
                         /\ after[key].storage = f.state[key].storage]_vars

\* C33: the transaction origin is the same in every frame of a call tree:
\* ORIGIN in a callee reached through any chain of CALL, STATICCALL and
\* DELEGATECALL pushes the origin of the top-level transaction
C33_OriginSameInEveryFrame ==
  [][(/\ Fetch /\ opcode = ORIGIN
      /\ \A i \in 1..(Len(frames) - 1) :
            frames[i].pend.opcode \in {CALL, STATICCALL, DELEGATECALL}
      /\ Len(frames') = Len(frames))
        => At(frames'[Len(frames)].stack, 1) = frames[1].tx.origin]_vars

\* the opcodes that move pc or enter another frame
BranchingOpcodes ==
  {JUMP, JUMPI, CALL, CALLCODE, DELEGATECALL, STATICCALL, CREATE, CREATE2}

RECURSIVE StraightFrom(_, _)
\* from offset i on, read with every PUSH skipping its whole immediate: no
\* branching opcode, and every PUSH immediate complete
StraightFrom(code, i) ==
  IF i >= Len(code) THEN TRUE
  ELSE LET op == code[i + 1]
       IN  IF isPush(op)
           THEN /\ i + (op - PUSH1 + 1) < Len(code)
                /\ StraightFrom(code, i + (op - PUSH1 + 1) + 1)
           ELSE /\ ~(op \in BranchingOpcodes)
                /\ StraightFrom(code, i + 1)

\* C34: for code without JUMP, JUMPI, CALL-family or CREATE opcode and with
\* complete PUSH immediates, every dispatch step either moves pc strictly
\* forward or ends the frame with a result; pc starting at 0 and a step
\* needing pc < len(code), the frame has its result after at most len(code)
\* dispatch steps
C34_StraightCodeTerminates ==
  [][(Len(frames) = 1 /\ Fetch /\ StraightFrom(Top.code, 0))
        => /\ Len(frames') = 1
           /\ \/ frames'[1].res.kind = "returned"
              \/ /\ frames'[1].res.kind = "running"
                 /\ frames'[1].pc > Top.pc]_vars

====
